---- MODULE Spec2Model ----
(***************************************************************************)
(* The reward / inventory engine of RpgTracker (GameContext.tsx,           *)
(* AuthContext.tsx, questAPI) as a state machine.                          *)
(*                                                                         *)
(* A session with a logged-in user is modelled.  React state (user,        *)
(* quests, inventory) is the variables of the same names; the values an    *)
(* async handler captured in its closure when it was called are kept in    *)
(* the handler's task record (userSnap, invSnap, quest).  Every await is   *)
(* a separate step: the store answers (or fails) in a later action.        *)
(*                                                                         *)
(* The combat page (Combat.tsx) is the second part: its React state is the *)
(* variables of the same names, and every setTimeout is an entry of timers *)
(* that holds the values its callback captured when it was scheduled.      *)
(***************************************************************************)
EXTENDS Integers, Sequences, FiniteSets, TLC

\* ------------------------------------------------------------- bounds
MaxQuests == 2      \* quests ever created in one run
MaxInv == 2         \* inventory entries
MaxQty == 2         \* quantity held by one entry
MaxGold == 150      \* gold the character may reach by selling
MaxActs == 3        \* button presses (handler calls) in one encounter
MaxCalls == 2       \* completeQuest calls in flight at once, where they may overlap
MaxMessages == 12   \* messages appended to the combat log in one run
MaxStat == 8        \* strength, dexterity, intelligence a damage formula is tried with
MaxDefense == 30    \* monster attack and defense a damage formula is tried with

\* -------------------------------------------------- program constants
ExpPerLevel == 100      \* newExpToNext = newLevel * 100
PointsPerLevel == 3     \* newAvailablePoints += 3
LogWindow == 10         \* [...prev, message].slice(-10)
BaseAttack == 10        \* playerAttack = 10 + strength * 2
BaseDefense == 5        \* monster.attack - (5 + dexterity)
InitialPlayerHP == 100  \* useState(100)
InitialPlayerMP == 50   \* useState(50)
MaxSkillButtons == 4    \* playerSkills.slice(0, 4)

\* ------------------------------------------------------------ inputs
\* An Item: quantity is optional (hasQuantity = FALSE: the field is absent).
ItemValue == [potion |-> 50, sword |-> 99]

Item(id, hasQ, q) ==
    [id |-> id, value |-> ItemValue[id], hasQuantity |-> hasQ, quantity |-> q]

Potion1 == Item("potion", TRUE, 1)
PotionLoose == Item("potion", FALSE, 0)
Sword == Item("sword", FALSE, 0)

\* The items a caller hands to addItem / buyItem.
Items == {Potion1, PotionLoose, Sword}
ItemIds == {"potion", "sword"}

\* The items a caller hands to addItem when the inventory functions are
\* checked on their own: every id, without a quantity and with each quantity
\* from 0 (a quantity field that holds 0) upwards.
ItemInputs ==
    {Item(id, TRUE, q) : id \in ItemIds, q \in 0..MaxQty}
        \cup {Item(id, FALSE, 0) : id \in ItemIds}

NoItem == [id |-> "none", value |-> 0, hasQuantity |-> FALSE, quantity |-> 0]

\* Rewards: skillPoints and items are optional fields.
Rewards(e, g, hasSp, sp, hasIt, its) ==
    [experience |-> e, gold |-> g, hasSkillPoints |-> hasSp, skillPoints |-> sp,
     hasItems |-> hasIt, items |-> its]

\* The quest data a caller hands to addQuest: a small reward, a reward that
\* reaches the first threshold exactly and grants a stackable item, a reward
\* that crosses two thresholds and grants a non-stackable item, and an
\* inactive quest.
QuestInputs ==
    { [isActive |-> TRUE,  rewards |-> Rewards(30, 10, FALSE, 0, FALSE, <<>>)],
      [isActive |-> TRUE,  rewards |-> Rewards(100, 5, TRUE, 1, TRUE, <<Potion1>>)],
      [isActive |-> TRUE,  rewards |-> Rewards(250, 0, TRUE, 2, TRUE, <<Sword>>)],
      [isActive |-> FALSE, rewards |-> Rewards(30, 10, TRUE, 1, FALSE, <<>>)] }

\* The updates questAPI.updateQuest is called with (a Partial of the columns).
QuestUpdates ==
    {[is_completed |-> FALSE, completed_at |-> FALSE],
     [progress |-> 0]}

QuestIds == 1..MaxQuests

NoQuest ==
    [id |-> 0, isCompleted |-> FALSE, isActive |-> FALSE, progress |-> 0,
     maxProgress |-> 1, completedAt |-> FALSE,
     rewards |-> Rewards(0, 0, FALSE, 0, FALSE, <<>>)]

\* The character a registration creates (the characters table's defaults).
DefaultCharacter ==
    [level |-> 1, experience |-> 0, experienceToNext |-> 100, gold |-> 100,
     skillPoints |-> 0, availablePoints |-> 0,
     strength |-> 5, dexterity |-> 5, intelligence |-> 5,
     currentHP |-> 100, maxHP |-> 100, currentMP |-> 50, maxMP |-> 50]

VARIABLES
    user,            \* AuthContext: user.character
    dbChar,          \* the characters row of the store
    quests,          \* GameContext: quests (newest first)
    dbQuests,        \* the quests table: id -> row
    nextQuestId,     \* the id the store assigns to the next created quest
    inventory,       \* GameContext: inventory
    savedInventory,  \* localStorage inventory_<user.id>
    storageFull,     \* localStorage rejects writes in this session (quota exceeded)
    tasks,           \* async calls awaiting the store, with their closures
    granted,         \* history: how often each quest's rewards reached the character
    ledger,          \* history: the starting gold plus every reward and credit
                     \*   written, minus every price written
    last             \* history: the operation called last, its pre-state, its outcome

\* The state outside the combat page.
gameVars == <<user, dbChar, quests, dbQuests, nextQuestId, inventory,
              savedInventory, storageFull, tasks, granted, ledger, last>>

VARIABLES
    dbMonsters,      \* the monsters table (the templates)
    dbUnlocked,      \* player_unlocked_skills of the user, joined with skills
    mounted,         \* the Combat page is shown
    initPc,          \* initializeCombat: "none" | "awaiting" | "done"
    skillsPc,        \* loadPlayerSkills: "none" | "awaiting" | "done"
    currentMonster,  \* Combat: currentMonster (NoMonster: null)
    playerHP,        \* Combat: playerHP
    playerMP,        \* Combat: playerMP
    monsterHP,       \* Combat: monsterHP
    combatLog,       \* Combat: combatLog
    menuState,       \* Combat: menuState
    playerSkills,    \* Combat: playerSkills
    isLoading,       \* Combat: isLoading
    timers,          \* setTimeout callbacks not yet run, in scheduling order
    acts,            \* history: the button presses so far
    fled,            \* history: Run was pressed
    killers,         \* history: the presses that brought monsterHP to 0
    struck,          \* history: per press, the counter-attacks run for it
    logged,          \* history: every message appended to the log, in order
    lastAct          \* history: the combat step taken last and the state before it

combatVars == <<dbMonsters, dbUnlocked, mounted, initPc, skillsPc, currentMonster,
                playerHP, playerMP, monsterHP, combatLog, menuState, playerSkills,
                isLoading, timers, acts, fled, killers, struck, logged, lastAct>>

vars == <<gameVars, combatVars>>

\* ----------------------------------------------------------- helpers
Range(s) == {s[k] : k \in 1..Len(s)}

\* quests.find(q => q.id === questId)
find(qs, qid) ==
    IF \E k \in 1..Len(qs) : qs[k].id = qid
    THEN qs[CHOOSE k \in 1..Len(qs) :
                qs[k].id = qid /\ \A j \in 1..(k - 1) : qs[j].id # qid]
    ELSE NoQuest

\* inventory.findIndex(i => i.id === id); 0 stands for -1 (indices are 1-based)
findIndex(inv, id) ==
    IF \E k \in 1..Len(inv) : inv[k].id = id
    THEN CHOOSE k \in 1..Len(inv) :
             inv[k].id = id /\ \A j \in 1..(k - 1) : inv[j].id # id
    ELSE 0

\* inventory.find(i => i.id === itemId)
findItem(inv, id) ==
    IF findIndex(inv, id) = 0 THEN NoItem ELSE inv[findIndex(inv, id)]

\* every item is taken to carry a quantity
QuantityIgnored(item) == TRUE

\* JavaScript truthiness of item.quantity: absent and 0 are falsy
QuantityTruthy(item) == item.hasQuantity /\ item.quantity # 0

\* (item.quantity || d)
QuantityOr(item, d) == IF QuantityTruthy(item) THEN item.quantity ELSE d

\* Units an entry stands for: its quantity, 1 when it carries none.
Units(item) == IF item.hasQuantity THEN item.quantity ELSE 1

RECURSIVE UnitsOf(_, _)
UnitsOf(inv, id) ==
    IF inv = <<>> THEN 0
    ELSE (IF Head(inv).id = id THEN Units(Head(inv)) ELSE 0) + UnitsOf(Tail(inv), id)

Others(inv, id) == SelectSeq(inv, LAMBDA i : i.id # id)

WithinBounds(inv) ==
    /\ Len(inv) <= MaxInv
    /\ \A k \in 1..Len(inv) : inv[k].quantity <= MaxQty

\* ------------------------------------------- GameContext: pure parts
\* the isCompleted test is left out
shouldCompleteAgain(qs, qid) == find(qs, qid) # NoQuest

\* completeQuest's guard: if (!quest || quest.isCompleted) return;
shouldComplete(qs, qid) ==
    LET quest == find(qs, qid)
    IN  ~(quest = NoQuest \/ quest.isCompleted)

\* questAPI.completeQuest: the row after the update, as returned to the caller
questAPI_completeQuest(row) ==
    [row EXCEPT !.isCompleted = TRUE, !.completedAt = TRUE,
                !.progress = row.maxProgress]

\* questAPI.createQuest: the inserted row
questAPI_createQuest(id, questData) ==
    [id |-> id, isCompleted |-> FALSE, isActive |-> questData.isActive,
     progress |-> 0, maxProgress |-> 1, completedAt |-> FALSE,
     rewards |-> questData.rewards]

\* The quests column a field of the returned Quest is read from.
Column(field) ==
    CASE field = "isCompleted" -> "is_completed"
      [] field = "isActive" -> "is_active"
      [] field = "progress" -> "progress"
      [] field = "maxProgress" -> "max_progress"
      [] field = "completedAt" -> "completed_at"
      [] OTHER -> field

\* questAPI.updateQuest: .update(updates).eq('id', questId); the columns named
\* in updates are overwritten, the others kept
questAPI_updateQuest(row, updates) ==
    [field \in DOMAIN row |->
        IF Column(field) \in DOMAIN updates THEN updates[Column(field)] ELSE row[field]]

\* setQuests(prev => prev.map(q => q.id === questId ? completedQuest : q))
replaceQuest(prev, qid, completedQuest) ==
    [k \in 1..Len(prev) |-> IF prev[k].id = qid THEN completedQuest ELSE prev[k]]

\* completeQuest, "Award rewards"
newExp(character, quest) == character.experience + quest.rewards.experience

newGold(character, quest) == character.gold + quest.rewards.gold

\* the skill points are forgotten
newSkillPointsForgotten(character, quest) == character.skillPoints

\* user.character.skillPoints + (quest.rewards.skillPoints || 0)
newSkillPoints(character, quest) ==
    character.skillPoints
      + (IF quest.rewards.hasSkillPoints /\ quest.rewards.skillPoints # 0
         THEN quest.rewards.skillPoints ELSE 0)

\* > where the code has >=
levelUpStrict(character, quest) ==
    newExp(character, quest) > character.experienceToNext

\* "Check for level up": if (newExp >= user.character.experienceToNext)
levelUp(character, quest) ==
    newExp(character, quest) >= character.experienceToNext

\* the character handed to updateUser
awardRewards(character, quest) ==
    LET newLevel == IF levelUp(character, quest)
                    THEN character.level + 1 ELSE character.level
    IN  [character EXCEPT
            !.experience = newExp(character, quest),
            !.experienceToNext =
                IF levelUp(character, quest) THEN newLevel * ExpPerLevel
                ELSE character.experienceToNext,
            !.level = newLevel,
            !.gold = newGold(character, quest),
            !.skillPoints = newSkillPoints(character, quest),
            !.availablePoints =
                IF levelUp(character, quest)
                THEN character.availablePoints + PointsPerLevel
                ELSE character.availablePoints]

\* completeQuest, "Add reward items to inventory": [...inventory, ...items]
grantItems(inv, quest) ==
    IF quest.rewards.hasItems THEN inv \o quest.rewards.items ELSE inv

\* addItem: updatedInventory
addItemInventory(inv, item) ==
    LET existingItemIndex == findIndex(inv, item.id)
    IN  IF existingItemIndex # 0 /\ QuantityTruthy(item)
        THEN [k \in 1..Len(inv) |->
                IF k = existingItemIndex
                THEN [inv[k] EXCEPT !.hasQuantity = TRUE,
                                    !.quantity = QuantityOr(inv[k], 0) + QuantityOr(item, 1)]
                ELSE inv[k]]
        ELSE Append(inv, item)

\* >= where the code has >: an entry lowered to 0 is kept
RECURSIVE removeItemKeepsZero(_, _, _)
removeItemKeepsZero(inv, itemId, quantity) ==
    IF inv = <<>> THEN <<>>
    ELSE LET item == Head(inv)
             newQuantity == QuantityOr(item, 1) - quantity
             kept == IF item.id = itemId
                     THEN (IF newQuantity >= 0
                           THEN <<[item EXCEPT !.hasQuantity = TRUE,
                                               !.quantity = newQuantity]>>
                           ELSE <<>>)
                     ELSE <<item>>
         IN  kept \o removeItemKeepsZero(Tail(inv), itemId, quantity)

\* removeItem: updatedInventory (the reduce over the inventory)
RECURSIVE removeItemInventory(_, _, _)
removeItemInventory(inv, itemId, quantity) ==
    IF inv = <<>> THEN <<>>
    ELSE LET item == Head(inv)
             newQuantity == QuantityOr(item, 1) - quantity
             kept == IF item.id = itemId
                     THEN (IF newQuantity > 0
                           THEN <<[item EXCEPT !.hasQuantity = TRUE,
                                               !.quantity = newQuantity]>>
                           ELSE <<>>)
                     ELSE <<item>>
         IN  kept \o removeItemInventory(Tail(inv), itemId, quantity)

\* the gold test is left out
canBuyAlways(character, item) == TRUE

\* buyItem's guard: if (!user || user.character.gold < item.value) return false;
canBuy(character, item) == ~(character.gold < item.value)

\* buyItem: the character handed to updateUser
buyCharacter(character, item) ==
    [character EXCEPT !.gold = character.gold - item.value]

\* sellItem: sellPrice = Math.floor(item.value / 2)
sellPrice(item) == item.value \div 2

\* sellItem: the character handed to updateUser
sellCharacter(character, item) ==
    [character EXCEPT !.gold = character.gold + sellPrice(item)]

\* saveInventoryData: localStorage.setItem either stores the data or throws
saveInventoryData(data) ==
    savedInventory' = IF storageFull THEN savedInventory ELSE data

\* What a handler that ends with saveInventoryData does: return (r) or throw
Saved(r) == IF storageFull THEN "thrown" ELSE r

\* ------------------------------------------- AuthContext: updateUser
\* { ...user.character, ...userData.character }
mergeCharacter(character, updates) ==
    [f \in DOMAIN character |->
        IF f \in DOMAIN updates THEN updates[f] ELSE character[f]]

\* ------------------------------------------------ Combat: the inputs
\* A row of the monsters table.
Monster(name, hp, attack, defense, exp_reward, gold_reward) ==
    [name |-> name, hp |-> hp, attack |-> attack, defense |-> defense,
     exp_reward |-> exp_reward, gold_reward |-> gold_reward]

\* Two attacks of the default character defeat the slime; the golem's defense
\* exceeds every attack and its attack is below the player's defense; the bat
\* falls to one attack and hits hard.
Slime == Monster("slime", 20, 12, 2, 10, 5)
Golem == Monster("golem", 30, 8, 40, 50, 20)
Bat == Monster("bat", 5, 30, 0, 5, 1)

MonsterCatalog == <<Slime, Golem, Bat>>

NoMonster == Monster("none", 0, 0, 0, 0, 0)

\* A row of the skills table.
Skill(name, damage, mana_cost, required_class) ==
    [name |-> name, damage |-> damage, mana_cost |-> mana_cost,
     required_class |-> required_class]

Fireball == Skill("fireball", 6, 20, "Wizard")
Slash == Skill("slash", 4, 10, "Fighter")
Smite == Skill("smite", 8, 5, "Paladin")

\* The skills table; the user has unlocked UnlockedSkills or nothing.
Skills == {Fireball, Slash, Smite}
UnlockedSkills == <<Fireball, Slash>>

NoSkill == Skill("none", 0, 0, "none")

\* The characters that enter an encounter: the default one and a wounded,
\* weak one.
Wounded ==
    [DefaultCharacter EXCEPT !.currentHP = 3, !.currentMP = 25, !.strength = 1,
                             !.dexterity = 2, !.intelligence = 2]

CombatCharacters == {DefaultCharacter, Wounded}

\* ------------------------------------------- Combat: the pure parts
Max(a, b) == IF a >= b THEN a ELSE b

\* A line of the combat log: its template and the values filled in.
Message(kind, name, a, b) == [kind |-> kind, name |-> name, a |-> a, b |-> b]

\* the oldest lines are kept
addToCombatLogKeepsOldest(prev, message) ==
    LET all == Append(prev, message)
    IN  IF Len(all) > LogWindow THEN SubSeq(all, 1, LogWindow) ELSE all

\* addToCombatLog: [...prev, message].slice(-10)
addToCombatLog(prev, message) ==
    LET all == Append(prev, message)
    IN  IF Len(all) > LogWindow
        THEN SubSeq(all, Len(all) - LogWindow + 1, Len(all))
        ELSE all

\* the full vitals
initialVitalsFull(character) == [hp |-> character.maxHP, mp |-> character.maxMP]

\* initializeCombat: setPlayerHP(vitals.currentHP); setPlayerMP(vitals.currentMP)
initialVitals(character) == [hp |-> character.currentHP, mp |-> character.currentMP]

\* the monster is not looked at
noMonsterIgnored(monster) == FALSE

\* handleAttack, handleSkillUse, monsterAttack: if (!currentMonster || !user) return;
noMonster(monster) == monster = NoMonster

\* handleAttack: playerAttack = 10 + strength * 2
playerAttack(character) == BaseAttack + character.strength * 2

\* the floor of 1 is left out
attackDamageUnfloored(character, monster) ==
    playerAttack(character) - monster.defense

\* handleAttack: damage = Math.max(1, playerAttack - currentMonster.defense)
attackDamage(character, monster) ==
    Max(1, playerAttack(character) - monster.defense)

\* handleSkillUse: skillDamage, doubled (strength * 1.5 is a half-integer)
skillDamageTwice(character, skill) ==
    2 * skill.damage
      + (IF skill.required_class = "Wizard" THEN 4 * character.intelligence
         ELSE IF skill.required_class = "Fighter" THEN 3 * character.strength
         ELSE 0)

\* the whole defense is subtracted
castDamageWholeDefense(character, skill, monster) ==
    Max(1, (skillDamageTwice(character, skill) - 2 * monster.defense) \div 2)

\* handleSkillUse: Math.max(1, Math.floor(skillDamage - currentMonster.defense / 2))
castDamage(character, skill, monster) ==
    Max(1, (skillDamageTwice(character, skill) - monster.defense) \div 2)

\* the damage is not raised to 1
monsterDamageUnfloored(character, monster) ==
    monster.attack - (BaseDefense + character.dexterity)

\* monsterAttack: Math.max(1, currentMonster.attack - (5 + dexterity))
monsterDamage(character, monster) ==
    Max(1, monster.attack - (BaseDefense + character.dexterity))

\* the defeat test is left out
monsterNeverDefeated(newMonsterHP) == FALSE

\* every action is taken to end the encounter
monsterAlwaysDefeated(newMonsterHP) == TRUE

\* handleAttack, handleSkillUse: if (newMonsterHP <= 0)
monsterDefeated(newMonsterHP) == newMonsterHP <= 0

\* The render: isPlayerDefeated, isMonsterDefeated, isBattleOver
isPlayerDefeated == playerHP <= 0
isMonsterDefeated == monsterHP <= 0
isBattleOver == isPlayerDefeated \/ isMonsterDefeated

\* setTimeout(() => monsterAttack(), 1000): the callback and what the
\* monsterAttack of the scheduling render captured
CounterAttack(by) ==
    [kind |-> "monsterAttack", by |-> by, monster |-> currentMonster,
     playerHP |-> playerHP, character |-> user]

\* setTimeout(() => navigate('/adventure'), 1500)
Navigate(by) ==
    [kind |-> "navigate", by |-> by, monster |-> NoMonster,
     playerHP |-> 0, character |-> user]

\* Timers run in the order of their due times: a counter-attack (1000 ms)
\* when no counter-attack scheduled before it is waiting, a navigation
\* (1500 ms) when nothing scheduled before it is waiting.
isDue(i) ==
    /\ i \in 1..Len(timers)
    /\ IF timers[i].kind = "navigate" THEN i = 1
       ELSE \A j \in 1..(i - 1) : timers[j].kind # "monsterAttack"

\* The state of the encounter, as a step finds it.
CombatSnapshot ==
    [currentMonster |-> currentMonster, playerHP |-> playerHP,
     playerMP |-> playerMP, monsterHP |-> monsterHP, combatLog |-> combatLog,
     menuState |-> menuState, timers |-> timers, mounted |-> mounted,
     fled |-> fled]

\* op: the handler or callback run; by: the button press it belongs to;
\* accepted: the handler passed its own guard; pre: the state it found
Acted(op, by, skill, accepted) ==
    [op |-> op, by |-> by, skill |-> skill, accepted |-> accepted,
     pre |-> CombatSnapshot]

\* The combat page is not open.
NoEncounter ==
    /\ dbMonsters = MonsterCatalog
    /\ dbUnlocked = <<>>
    /\ mounted = FALSE
    /\ initPc = "none"
    /\ skillsPc = "none"
    /\ currentMonster = NoMonster
    /\ playerHP = InitialPlayerHP
    /\ playerMP = InitialPlayerMP
    /\ monsterHP = 0
    /\ combatLog = <<>>
    /\ menuState = "main"
    /\ playerSkills = <<>>
    /\ isLoading = TRUE
    /\ timers = <<>>
    /\ acts = 0
    /\ fled = FALSE
    /\ killers = {}
    /\ struck = [a \in 1..MaxActs |-> 0]
    /\ logged = <<>>
    /\ lastAct = Acted("none", 0, NoSkill, FALSE)

\* --------------------------------------------------------- history
Snapshot ==
    [user |-> user, dbChar |-> dbChar, quests |-> quests, dbQuests |-> dbQuests,
     inventory |-> inventory, savedInventory |-> savedInventory]

\* op, qid, item: the handler called and its argument (removeItem: item.id and
\*   item.quantity are itemId and quantity; sellItem: item is the entry found)
\* result: "pending" | "noop" | "returned" | "thrown" | "true" | "false"
\* calls: the store calls the handler has issued
\* write (the character store write of the call): "none" | "pending" | "ok" | "failed"
\* pre: the state at the call
Called(op, qid, item, result, calls, write) ==
    [op |-> op, qid |-> qid, item |-> item, result |-> result, calls |-> calls,
     write |-> write, pre |-> Snapshot]

Task(op, pc, qid, quest, payload) ==
    [op |-> op, pc |-> pc, qid |-> qid, quest |-> quest, payload |-> payload,
     userSnap |-> user, invSnap |-> inventory]

RemoveAt(s, i) == [k \in 1..(Len(s) - 1) |-> IF k < i THEN s[k] ELSE s[k + 1]]

\* One user action at a time: the next handler is called when the last has settled.
Idle == tasks = <<>>

\* The inventories loadGameData may find in localStorage at the start.
InitInventories == {<<>>, <<Potion1>>}

Init ==
    /\ user = DefaultCharacter
    /\ dbChar = DefaultCharacter
    /\ quests = <<>>
    /\ dbQuests = <<>>
    /\ nextQuestId = 1
    /\ inventory \in InitInventories
    /\ savedInventory = inventory
    /\ storageFull \in BOOLEAN
    /\ tasks = <<>>
    /\ granted = [qid \in QuestIds |-> 0]
    /\ ledger = user.gold
    /\ last = Called("none", 0, NoItem, "none", 0, "none")
    /\ NoEncounter

\* the character is read when it is used
capturedUserLatest(t) == user

\* completeQuest, "Award rewards": user.character is the user of the render
\* that created the handler
capturedUser(t) == t.userSnap

\* ------------------------------------------------------- GameContext
\* completeQuest(questId), up to its first await
completeQuest(qid) ==
    /\ IF shouldComplete(quests, qid)
       THEN /\ WithinBounds(grantItems(inventory, find(quests, qid)))
            /\ tasks' = Append(tasks, Task("completeQuest", "questAPI", qid,
                                           find(quests, qid), user))
            /\ last' = Called("completeQuest", qid, NoItem, "pending", 1, "none")
       ELSE /\ tasks' = tasks
            /\ last' = Called("completeQuest", qid, NoItem, "noop", 0, "none")
    /\ UNCHANGED <<user, dbChar, quests, dbQuests, nextQuestId, inventory,
                   savedInventory, storageFull, granted, ledger>>
    /\ UNCHANGED combatVars

\* await questAPI.completeQuest(questId) answers; then setQuests, the rewards
\* and the call of updateUser, up to its await of userAPI.updateCharacter
completeQuestStored(i, ok) ==
    /\ i \in 1..Len(tasks)
    /\ tasks[i].op = "completeQuest" /\ tasks[i].pc = "questAPI"
    /\ LET t == tasks[i]
       IN  IF ok /\ t.qid \in DOMAIN dbQuests
           THEN LET completedQuest == questAPI_completeQuest(dbQuests[t.qid])
                IN  /\ dbQuests' = [dbQuests EXCEPT ![t.qid] = completedQuest]
                    /\ quests' = replaceQuest(quests, t.qid, completedQuest)
                    /\ tasks' = [tasks EXCEPT
                                   ![i].pc = "updateUser",
                                   ![i].payload = awardRewards(capturedUser(t), t.quest)]
                    /\ last' = [last EXCEPT !.calls = @ + 1, !.write = "pending"]
           ELSE /\ tasks' = RemoveAt(tasks, i)
                /\ last' = [last EXCEPT !.result = "thrown"]
                /\ UNCHANGED <<dbQuests, quests>>
    /\ UNCHANGED <<user, dbChar, nextQuestId, inventory, savedInventory, storageFull,
                   granted, ledger>>
    /\ UNCHANGED combatVars

\* await updateUser(...) answers inside completeQuest; then the reward items
completeQuestRewarded(i, ok) ==
    /\ i \in 1..Len(tasks)
    /\ tasks[i].op = "completeQuest" /\ tasks[i].pc = "updateUser"
    /\ tasks' = RemoveAt(tasks, i)
    /\ LET t == tasks[i]
           newItems == grantItems(t.invSnap, t.quest)
       IN  IF ok
           THEN /\ dbChar' = mergeCharacter(dbChar, t.payload)
                /\ user' = mergeCharacter(t.userSnap, t.payload)
                /\ granted' = [granted EXCEPT ![t.qid] = @ + 1]
                /\ ledger' = ledger + t.quest.rewards.gold
                /\ IF t.quest.rewards.hasItems
                   THEN /\ inventory' = newItems
                        /\ saveInventoryData(newItems)
                        /\ last' = [last EXCEPT !.write = "ok",
                                                !.result = Saved("returned")]
                   ELSE /\ UNCHANGED <<inventory, savedInventory>>
                        /\ last' = [last EXCEPT !.write = "ok", !.result = "returned"]
           ELSE /\ last' = [last EXCEPT !.write = "failed", !.result = "thrown"]
                /\ UNCHANGED <<user, dbChar, inventory, savedInventory, granted, ledger>>
    /\ UNCHANGED <<quests, dbQuests, nextQuestId, storageFull>>
    /\ UNCHANGED combatVars

\* addQuest(questData), up to await questAPI.createQuest
addQuest(questData) ==
    /\ Idle
    /\ nextQuestId <= MaxQuests
    /\ tasks' = Append(tasks, Task("addQuest", "createQuest", 0,
                                   questAPI_createQuest(0, questData), user))
    /\ last' = Called("addQuest", 0, NoItem, "pending", 1, "none")
    /\ UNCHANGED <<user, dbChar, quests, dbQuests, nextQuestId, inventory,
                   savedInventory, storageFull, granted, ledger>>
    /\ UNCHANGED combatVars

\* questAPI.createQuest answers; setQuests(prev => [newQuest, ...prev])
addQuestStored(i, ok) ==
    /\ i \in 1..Len(tasks)
    /\ tasks[i].op = "addQuest"
    /\ tasks' = RemoveAt(tasks, i)
    /\ IF ok /\ nextQuestId <= MaxQuests
       THEN LET newQuest == [tasks[i].quest EXCEPT !.id = nextQuestId]
            IN  /\ dbQuests' = [id \in DOMAIN dbQuests \cup {nextQuestId} |->
                                  IF id = nextQuestId THEN newQuest ELSE dbQuests[id]]
                /\ nextQuestId' = nextQuestId + 1
                /\ quests' = <<newQuest>> \o quests
                /\ last' = [last EXCEPT !.result = "returned", !.qid = nextQuestId]
       ELSE /\ last' = [last EXCEPT !.result = "thrown"]
            /\ UNCHANGED <<dbQuests, nextQuestId, quests>>
    /\ UNCHANGED <<user, dbChar, inventory, savedInventory, storageFull, granted, ledger>>
    /\ UNCHANGED combatVars

\* deleteQuest(questId), up to await questAPI.deleteQuest
deleteQuest(qid) ==
    /\ Idle
    /\ tasks' = Append(tasks, Task("deleteQuest", "deleteQuest", qid, NoQuest, user))
    /\ last' = Called("deleteQuest", qid, NoItem, "pending", 1, "none")
    /\ UNCHANGED <<user, dbChar, quests, dbQuests, nextQuestId, inventory,
                   savedInventory, storageFull, granted, ledger>>
    /\ UNCHANGED combatVars

\* questAPI.deleteQuest answers; setQuests(prev => prev.filter(q => q.id !== questId))
deleteQuestStored(i, ok) ==
    /\ i \in 1..Len(tasks)
    /\ tasks[i].op = "deleteQuest"
    /\ tasks' = RemoveAt(tasks, i)
    /\ IF ok
       THEN /\ dbQuests' = [id \in DOMAIN dbQuests \ {tasks[i].qid} |-> dbQuests[id]]
            /\ quests' = SelectSeq(quests, LAMBDA q : q.id # tasks[i].qid)
            /\ last' = [last EXCEPT !.result = "returned"]
       ELSE /\ last' = [last EXCEPT !.result = "thrown"]
            /\ UNCHANGED <<dbQuests, quests>>
    /\ UNCHANGED <<user, dbChar, nextQuestId, inventory, savedInventory, storageFull,
                   granted, ledger>>
    /\ UNCHANGED combatVars

\* questAPI.updateQuest(questId, updates): one store call; no state of the
\* context is set from its answer
updateQuest(qid, updates, ok) ==
    /\ Idle
    /\ IF ok /\ qid \in DOMAIN dbQuests
       THEN /\ dbQuests' = [dbQuests EXCEPT ![qid] = questAPI_updateQuest(@, updates)]
            /\ last' = Called("updateQuest", qid, NoItem, "returned", 1, "none")
       ELSE /\ dbQuests' = dbQuests
            /\ last' = Called("updateQuest", qid, NoItem, "thrown", 1, "none")
    /\ UNCHANGED <<user, dbChar, quests, nextQuestId, inventory, savedInventory,
                   storageFull, tasks, granted, ledger>>
    /\ UNCHANGED combatVars

\* addItem(item)
addItem(item) ==
    /\ WithinBounds(addItemInventory(inventory, item))
    /\ inventory' = addItemInventory(inventory, item)
    /\ saveInventoryData(addItemInventory(inventory, item))
    /\ last' = Called("addItem", 0, item, Saved("returned"), 0, "none")
    /\ UNCHANGED <<user, dbChar, quests, dbQuests, nextQuestId, storageFull, tasks,
                   granted, ledger>>
    /\ UNCHANGED combatVars

\* removeItem(itemId, quantity)
removeItem(itemId, quantity) ==
    /\ inventory' = removeItemInventory(inventory, itemId, quantity)
    /\ saveInventoryData(removeItemInventory(inventory, itemId, quantity))
    /\ last' = Called("removeItem", 0,
                      [NoItem EXCEPT !.id = itemId, !.hasQuantity = TRUE,
                                     !.quantity = quantity],
                      Saved("returned"), 0, "none")
    /\ UNCHANGED <<user, dbChar, quests, dbQuests, nextQuestId, storageFull, tasks,
                   granted, ledger>>
    /\ UNCHANGED combatVars

\* buyItem(item): updateUser is called and not awaited, then addItem(item)
buyItem(item) ==
    /\ IF canBuy(user, item)
       THEN /\ WithinBounds(addItemInventory(inventory, item))
            /\ tasks' = Append(tasks, Task("buyItem", "updateUser", 0, NoQuest,
                                           buyCharacter(user, item)))
            /\ inventory' = addItemInventory(inventory, item)
            /\ saveInventoryData(addItemInventory(inventory, item))
            /\ last' = Called("buyItem", 0, item, Saved("true"), 1, "pending")
       ELSE /\ last' = Called("buyItem", 0, item, "false", 0, "none")
            /\ UNCHANGED <<tasks, inventory, savedInventory>>
    /\ UNCHANGED <<user, dbChar, quests, dbQuests, nextQuestId, storageFull, granted, ledger>>
    /\ UNCHANGED combatVars

\* sellItem(itemId): updateUser is called and not awaited, then removeItem(itemId, 1)
sellItem(itemId) ==
    /\ LET item == findItem(inventory, itemId)
       IN  IF item # NoItem
           THEN /\ user.gold + sellPrice(item) <= MaxGold
                /\ tasks' = Append(tasks, Task("sellItem", "updateUser", 0, NoQuest,
                                               sellCharacter(user, item)))
                /\ inventory' = removeItemInventory(inventory, itemId, 1)
                /\ saveInventoryData(removeItemInventory(inventory, itemId, 1))
                /\ last' = Called("sellItem", 0, item, Saved("true"), 1, "pending")
           ELSE /\ last' = Called("sellItem", 0, [NoItem EXCEPT !.id = itemId],
                                  "false", 0, "none")
                /\ UNCHANGED <<tasks, inventory, savedInventory>>
    /\ UNCHANGED <<user, dbChar, quests, dbQuests, nextQuestId, storageFull, granted, ledger>>
    /\ UNCHANGED combatVars

\* ------------------------------------------------------- AuthContext
\* updateUser called by buyItem / sellItem: userAPI.updateCharacter answers,
\* then setUser; a failure is rethrown to a caller that does not await it
updateUser(i, ok) ==
    /\ i \in 1..Len(tasks)
    /\ tasks[i].op \in {"buyItem", "sellItem"} /\ tasks[i].pc = "updateUser"
    /\ tasks' = RemoveAt(tasks, i)
    /\ IF ok
       THEN /\ dbChar' = mergeCharacter(dbChar, tasks[i].payload)
            /\ user' = mergeCharacter(tasks[i].userSnap, tasks[i].payload)
            /\ ledger' = ledger + (tasks[i].payload.gold - tasks[i].userSnap.gold)
            /\ last' = [last EXCEPT !.write = "ok"]
       ELSE /\ last' = [last EXCEPT !.write = "failed"]
            /\ UNCHANGED <<user, dbChar, ledger>>
    /\ UNCHANGED <<quests, dbQuests, nextQuestId, inventory, savedInventory,
                   storageFull, granted>>
    /\ UNCHANGED combatVars

\* ------------------------------------------------------------ Combat
\* a victory pays the rewards it announces
CombatFrameRewarded ==
    /\ user' = IF monsterHP' <= 0 /\ monsterHP > 0
               THEN [user EXCEPT !.gold = @ + currentMonster.gold_reward,
                                 !.experience = @ + currentMonster.exp_reward]
               ELSE user
    /\ UNCHANGED <<dbChar, quests, dbQuests, nextQuestId, inventory,
                   savedInventory, storageFull, tasks, granted, ledger, last>>

\* What the combat page writes outside its own state: nothing.  It calls no
\* setter of the contexts and no writing store function.
CombatFrame == UNCHANGED gameVars

\* The page is opened: the mount effect calls initializeCombat and
\* loadPlayerSkills, which await the store.
InitCombat ==
    /\ user \in CombatCharacters
    /\ dbChar = user
    /\ quests = <<>>
    /\ dbQuests = <<>>
    /\ nextQuestId = 1
    /\ inventory = <<Potion1>>
    /\ savedInventory = inventory
    /\ storageFull = FALSE
    /\ tasks = <<>>
    /\ granted = [qid \in QuestIds |-> 0]
    /\ ledger = user.gold
    /\ last = Called("none", 0, NoItem, "none", 0, "none")
    /\ dbMonsters \in {MonsterCatalog, <<>>}
    /\ dbUnlocked \in {UnlockedSkills, <<>>}
    /\ mounted = TRUE
    /\ initPc = "awaiting"
    /\ skillsPc = "awaiting"
    /\ currentMonster = NoMonster
    /\ playerHP = InitialPlayerHP
    /\ playerMP = InitialPlayerMP
    /\ monsterHP = 0
    /\ combatLog = <<>>
    /\ menuState = "main"
    /\ playerSkills = <<>>
    /\ isLoading = TRUE
    /\ timers = <<>>
    /\ acts = 0
    /\ fled = FALSE
    /\ killers = {}
    /\ struck = [a \in 1..MaxActs |-> 0]
    /\ logged = <<>>
    /\ lastAct = Acted("none", 0, NoSkill, FALSE)

\* initializeCombat, from the answer of combatAPI.getRandomMonster on; a
\* state set after the page was left is dropped
initializeCombat(ok, monster) ==
    /\ initPc = "awaiting"
    /\ initPc' = "done"
    /\ lastAct' = Acted("initializeCombat", 0, NoSkill, ok /\ dbMonsters # <<>>)
    /\ IF ~mounted
       THEN UNCHANGED <<currentMonster, monsterHP, playerHP, playerMP, combatLog,
                        isLoading, logged>>
       ELSE /\ isLoading' = FALSE
            /\ IF ok /\ dbMonsters # <<>>
               THEN /\ monster \in Range(dbMonsters)
                    /\ currentMonster' = monster
                    /\ monsterHP' = monster.hp
                    /\ playerHP' = initialVitals(user).hp
                    /\ playerMP' = initialVitals(user).mp
                    /\ combatLog' = addToCombatLog(combatLog,
                                        Message("appears", monster.name, 0, 0))
                    /\ logged' = Append(logged, Message("appears", monster.name, 0, 0))
               ELSE /\ monster = NoMonster
                    /\ combatLog' = addToCombatLog(combatLog,
                                        Message("failed", "", 0, 0))
                    /\ logged' = Append(logged, Message("failed", "", 0, 0))
                    /\ UNCHANGED <<currentMonster, monsterHP, playerHP, playerMP>>
    /\ UNCHANGED <<dbMonsters, dbUnlocked, mounted, skillsPc, menuState,
                   playerSkills, timers, acts, fled, killers, struck>>
    /\ CombatFrame

\* loadPlayerSkills, from the answer of combatAPI.getPlayerUnlockedSkills on
loadPlayerSkills(ok) ==
    /\ skillsPc = "awaiting"
    /\ skillsPc' = "done"
    /\ playerSkills' = IF ok /\ mounted THEN dbUnlocked ELSE playerSkills
    /\ UNCHANGED <<dbMonsters, dbUnlocked, mounted, initPc, currentMonster,
                   playerHP, playerMP, monsterHP, combatLog, menuState, isLoading,
                   timers, acts, fled, killers, struck, logged, lastAct>>
    /\ CombatFrame

\* handleAttack
handleAttack ==
    /\ acts < MaxActs
    /\ acts' = acts + 1
    /\ IF noMonster(currentMonster)
       THEN /\ lastAct' = Acted("handleAttack", acts + 1, NoSkill, FALSE)
            /\ UNCHANGED <<monsterHP, combatLog, timers, killers, logged>>
       ELSE LET damage == attackDamage(user, currentMonster)
                newMonsterHP == Max(0, monsterHP - damage)
                attacked == addToCombatLog(combatLog,
                               Message("attack", currentMonster.name, damage, 0))
            IN  /\ lastAct' = Acted("handleAttack", acts + 1, NoSkill, TRUE)
                /\ monsterHP' = newMonsterHP
                /\ killers' = IF newMonsterHP <= 0 THEN killers \cup {acts + 1}
                              ELSE killers
                /\ IF monsterDefeated(newMonsterHP)
                   THEN /\ combatLog' =
                              addToCombatLog(
                                addToCombatLog(attacked,
                                   Message("defeated", currentMonster.name, 0, 0)),
                                Message("gained", "", currentMonster.exp_reward,
                                        currentMonster.gold_reward))
                        /\ logged' = logged \o
                              <<Message("attack", currentMonster.name, damage, 0),
                                Message("defeated", currentMonster.name, 0, 0),
                                Message("gained", "", currentMonster.exp_reward,
                                        currentMonster.gold_reward)>>
                        /\ timers' = timers
                   ELSE /\ combatLog' = attacked
                        /\ logged' = Append(logged,
                              Message("attack", currentMonster.name, damage, 0))
                        /\ timers' = Append(timers, CounterAttack(acts + 1))
    /\ UNCHANGED <<dbMonsters, dbUnlocked, mounted, initPc, skillsPc,
                   currentMonster, playerHP, playerMP, menuState, playerSkills,
                   isLoading, fled, struck>>
    /\ CombatFrame

\* handleSkillUse(skill)
handleSkillUse(skill) ==
    /\ acts < MaxActs
    /\ acts' = acts + 1
    /\ IF noMonster(currentMonster) \/ playerMP < skill.mana_cost
       THEN /\ lastAct' = Acted("handleSkillUse", acts + 1, skill, FALSE)
            /\ UNCHANGED <<monsterHP, playerMP, combatLog, menuState, timers, killers,
                           logged>>
       ELSE LET damage == castDamage(user, skill, currentMonster)
                newMonsterHP == Max(0, monsterHP - damage)
                newPlayerMP == playerMP - skill.mana_cost
                cast == addToCombatLog(combatLog,
                           Message("cast", skill.name, damage, 0))
            IN  /\ lastAct' = Acted("handleSkillUse", acts + 1, skill, TRUE)
                /\ monsterHP' = newMonsterHP
                /\ playerMP' = newPlayerMP
                /\ menuState' = "main"
                /\ killers' = IF newMonsterHP <= 0 THEN killers \cup {acts + 1}
                              ELSE killers
                /\ IF monsterDefeated(newMonsterHP)
                   THEN /\ combatLog' =
                              addToCombatLog(
                                addToCombatLog(cast,
                                   Message("defeated", currentMonster.name, 0, 0)),
                                Message("gained", "", currentMonster.exp_reward,
                                        currentMonster.gold_reward))
                        /\ logged' = logged \o
                              <<Message("cast", skill.name, damage, 0),
                                Message("defeated", currentMonster.name, 0, 0),
                                Message("gained", "", currentMonster.exp_reward,
                                        currentMonster.gold_reward)>>
                        /\ timers' = timers
                   ELSE /\ combatLog' = cast
                        /\ logged' = Append(logged, Message("cast", skill.name, damage, 0))
                        /\ timers' = Append(timers, CounterAttack(acts + 1))
    /\ UNCHANGED <<dbMonsters, dbUnlocked, mounted, initPc, skillsPc,
                   currentMonster, playerHP, playerSkills, isLoading, fled, struck>>
    /\ CombatFrame

\* handleRun
handleRun ==
    /\ acts < MaxActs
    /\ acts' = acts + 1
    /\ fled' = TRUE
    /\ combatLog' = addToCombatLog(combatLog, Message("fled", "", 0, 0))
    /\ logged' = Append(logged, Message("fled", "", 0, 0))
    /\ timers' = Append(timers, Navigate(acts + 1))
    /\ lastAct' = Acted("handleRun", acts + 1, NoSkill, TRUE)
    /\ UNCHANGED <<dbMonsters, dbUnlocked, mounted, initPc, skillsPc,
                   currentMonster, playerHP, playerMP, monsterHP, menuState,
                   playerSkills, isLoading, killers, struck>>
    /\ CombatFrame

\* handleGoBack: navigate('/adventure') at once
handleGoBack ==
    /\ mounted' = FALSE
    /\ lastAct' = Acted("handleGoBack", 0, NoSkill, TRUE)
    /\ UNCHANGED <<dbMonsters, dbUnlocked, initPc, skillsPc, currentMonster,
                   playerHP, playerMP, monsterHP, combatLog, menuState,
                   playerSkills, isLoading, timers, acts, fled, killers, struck,
                   logged>>
    /\ CombatFrame

\* The SKILLS button and the Back button: setMenuState
setMenuState(menu) ==
    /\ menuState # menu
    /\ menuState' = menu
    /\ lastAct' = Acted("setMenuState", 0, NoSkill, TRUE)
    /\ UNCHANGED <<dbMonsters, dbUnlocked, mounted, initPc, skillsPc,
                   currentMonster, playerHP, playerMP, monsterHP, combatLog,
                   playerSkills, isLoading, timers, acts, fled, killers, struck,
                   logged>>
    /\ CombatFrame

\* The callback of handleAttack's / handleSkillUse's timer: monsterAttack, with
\* the playerHP, currentMonster and user of the render that scheduled it.
\* After the page was left its state updates are dropped.
monsterAttack(i) ==
    /\ isDue(i)
    /\ timers[i].kind = "monsterAttack"
    /\ timers' = RemoveAt(timers, i)
    /\ lastAct' = Acted("monsterAttack", timers[i].by, NoSkill,
                        ~noMonster(timers[i].monster))
    /\ IF noMonster(timers[i].monster) \/ ~mounted
       THEN UNCHANGED <<playerHP, combatLog, struck, logged>>
       ELSE LET t == timers[i]
                damage == monsterDamage(t.character, t.monster)
                newPlayerHP == Max(0, t.playerHP - damage)
                attacked == addToCombatLog(combatLog,
                               Message("monsterAttack", t.monster.name, damage, 0))
            IN  /\ playerHP' = newPlayerHP
                /\ combatLog' = IF newPlayerHP <= 0
                                THEN addToCombatLog(attacked,
                                        Message("playerDefeated", "", 0, 0))
                                ELSE attacked
                /\ logged' = logged \o
                      (<<Message("monsterAttack", t.monster.name, damage, 0)>> \o
                       (IF newPlayerHP <= 0
                        THEN <<Message("playerDefeated", "", 0, 0)>> ELSE <<>>))
                /\ struck' = [struck EXCEPT ![t.by] = @ + 1]
    /\ UNCHANGED <<dbMonsters, dbUnlocked, mounted, initPc, skillsPc,
                   currentMonster, playerMP, monsterHP, menuState, playerSkills,
                   isLoading, acts, fled, killers>>
    /\ CombatFrame

\* The callback of handleRun's timer: navigate('/adventure')
navigate(i) ==
    /\ isDue(i)
    /\ timers[i].kind = "navigate"
    /\ timers' = RemoveAt(timers, i)
    /\ mounted' = FALSE
    /\ lastAct' = Acted("navigate", timers[i].by, NoSkill, TRUE)
    /\ UNCHANGED <<dbMonsters, dbUnlocked, initPc, skillsPc, currentMonster,
                   playerHP, playerMP, monsterHP, combatLog, menuState,
                   playerSkills, isLoading, acts, fled, killers, struck, logged>>
    /\ CombatFrame

\* addToCombatLog(message), called with any message
logMessage(message) ==
    /\ Len(logged) < MaxMessages
    /\ combatLog' = addToCombatLog(combatLog, message)
    /\ logged' = Append(logged, message)
    /\ lastAct' = Acted("addToCombatLog", 0, NoSkill, TRUE)
    /\ UNCHANGED <<dbMonsters, dbUnlocked, mounted, initPc, skillsPc,
                   currentMonster, playerHP, playerMP, monsterHP, menuState,
                   playerSkills, isLoading, timers, acts, fled, killers, struck>>
    /\ CombatFrame

\* The render: what the page offers.
Shown == mounted /\ ~isLoading
ActionMenu == Shown /\ currentMonster # NoMonster /\ ~isBattleOver
SkillButtons == SubSeq(playerSkills, 1, IF Len(playerSkills) < MaxSkillButtons
                                        THEN Len(playerSkills) ELSE MaxSkillButtons)

\* ------------------------------------------------------ specifications
\* The reward engine: quests are created, completed and deleted.
Next ==
    \/ \E qid \in QuestIds : Idle /\ completeQuest(qid)
    \/ \E i \in 1..Len(tasks), ok \in BOOLEAN : completeQuestStored(i, ok)
    \/ \E i \in 1..Len(tasks), ok \in BOOLEAN : completeQuestRewarded(i, ok)
    \/ \E questData \in QuestInputs : addQuest(questData)
    \/ \E i \in 1..Len(tasks), ok \in BOOLEAN : addQuestStored(i, ok)
    \/ \E qid \in QuestIds : deleteQuest(qid)
    \/ \E i \in 1..Len(tasks), ok \in BOOLEAN : deleteQuestStored(i, ok)

Spec == Init /\ [][Next]_vars

\* The reward engine and the quest store's update call.
NextQuestStore ==
    \/ Next
    \/ \E qid \in QuestIds, updates \in QuestUpdates, ok \in BOOLEAN :
           updateQuest(qid, updates, ok)

SpecQuestStore == Init /\ [][NextQuestStore]_vars

\* The reward engine with one quest and completeQuest called again while
\* earlier calls still await the store.
NextQuestOverlap ==
    \/ \E qid \in QuestIds : Len(tasks) < MaxCalls /\ completeQuest(qid)
    \/ \E i \in 1..Len(tasks), ok \in BOOLEAN : completeQuestStored(i, ok)
    \/ \E i \in 1..Len(tasks), ok \in BOOLEAN : completeQuestRewarded(i, ok)
    \/ \E questData \in QuestInputs : quests = <<>> /\ addQuest(questData)
    \/ \E i \in 1..Len(tasks), ok \in BOOLEAN : addQuestStored(i, ok)

SpecQuestOverlap == Init /\ [][NextQuestOverlap]_vars

\* The inventory engine: items are added, removed, bought and sold.
NextShop ==
    \/ \E item \in Items : Idle /\ addItem(item)
    \/ \E itemId \in ItemIds, quantity \in 1..MaxQty : Idle /\ removeItem(itemId, quantity)
    \/ \E item \in Items : Idle /\ buyItem(item)
    \/ \E itemId \in ItemIds : Idle /\ sellItem(itemId)
    \/ \E i \in 1..Len(tasks), ok \in BOOLEAN : updateUser(i, ok)

SpecShop == Init /\ [][NextShop]_vars

\* A completeQuest call awaits the store.
Completing == \E i \in 1..Len(tasks) : tasks[i].op = "completeQuest"

\* No character write has settled yet, and fewer than MaxCalls calls wait.
BeforeFirstWrite == user = DefaultCharacter /\ Len(tasks) < MaxCalls

\* The shop and one quest, with completeQuest, buyItem and sellItem called
\* while earlier calls still await the store, until the first character
\* write settles.
NextShopOverlap ==
    \/ \E questData \in QuestInputs : quests = <<>> /\ addQuest(questData)
    \/ \E i \in 1..Len(tasks), ok \in BOOLEAN : addQuestStored(i, ok)
    \/ \E qid \in QuestIds : ~Completing /\ BeforeFirstWrite /\ completeQuest(qid)
    \/ \E i \in 1..Len(tasks), ok \in BOOLEAN : completeQuestStored(i, ok)
    \/ \E i \in 1..Len(tasks), ok \in BOOLEAN : completeQuestRewarded(i, ok)
    \/ \E item \in Items : BeforeFirstWrite /\ buyItem(item)
    \/ \E itemId \in ItemIds : BeforeFirstWrite /\ sellItem(itemId)
    \/ \E i \in 1..Len(tasks), ok \in BOOLEAN : updateUser(i, ok)

SpecShopOverlap == Init /\ [][NextShopOverlap]_vars

\* The inventory and one quest, with addItem, removeItem, buyItem and
\* sellItem called while completeQuest awaits the store (one call during
\* each completeQuest); localStorage accepts every write.
FirstWhileCompleting == Completing /\ last.op = "completeQuest"

NextItemsOverlap ==
    \/ \E questData \in QuestInputs : quests = <<>> /\ addQuest(questData)
    \/ \E i \in 1..Len(tasks), ok \in BOOLEAN : addQuestStored(i, ok)
    \/ \E qid \in QuestIds : Idle /\ completeQuest(qid)
    \/ \E i \in 1..Len(tasks), ok \in BOOLEAN : completeQuestStored(i, ok)
    \/ \E i \in 1..Len(tasks), ok \in BOOLEAN : completeQuestRewarded(i, ok)
    \/ \E item \in Items : FirstWhileCompleting /\ addItem(item)
    \/ \E itemId \in ItemIds, quantity \in 1..MaxQty :
          FirstWhileCompleting /\ removeItem(itemId, quantity)
    \/ \E item \in Items : FirstWhileCompleting /\ Len(tasks) < MaxCalls /\ buyItem(item)
    \/ \E itemId \in ItemIds : FirstWhileCompleting /\ Len(tasks) < MaxCalls /\ sellItem(itemId)
    \/ \E i \in 1..Len(tasks), ok \in BOOLEAN : updateUser(i, ok)

\* localStorage accepts every write
InitItemsOverlap == Init /\ ~storageFull

SpecItemsOverlap == InitItemsOverlap /\ [][NextItemsOverlap]_vars

\* The inventory functions on their own: addItem and removeItem applied to
\* every inventory they build from every item of ItemInputs.
NextItems ==
    \/ \E item \in ItemInputs : Idle /\ addItem(item)
    \/ \E itemId \in ItemIds, quantity \in 1..MaxQty : Idle /\ removeItem(itemId, quantity)

SpecItems == Init /\ [][NextItems]_vars

\* The combat page: the buttons the render offers and the callbacks.
NextCombat ==
    \/ \E ok \in BOOLEAN, monster \in Range(MonsterCatalog) \cup {NoMonster} :
          initializeCombat(ok, monster)
    \/ \E ok \in BOOLEAN : loadPlayerSkills(ok)
    \/ ActionMenu /\ menuState = "main" /\ handleAttack
    \/ ActionMenu /\ menuState = "main" /\ playerSkills # <<>> /\ setMenuState("skills")
    \/ ActionMenu /\ menuState = "skills" /\ setMenuState("main")
    \/ \E skill \in Range(SkillButtons) :
          /\ ActionMenu /\ menuState = "skills"
          /\ ~(playerMP < skill.mana_cost)
          /\ handleSkillUse(skill)
    \/ ActionMenu /\ menuState = "main" /\ handleRun
    \/ Shown /\ handleGoBack
    \/ \E i \in 1..Len(timers) : monsterAttack(i)
    \/ \E i \in 1..Len(timers) : navigate(i)

SpecCombat == InitCombat /\ [][NextCombat]_vars

\* The handlers of the combat page called on their own, with every argument
\* and whatever the render offers: what each handler itself validates.
NextCombatHandlers ==
    \/ \E ok \in BOOLEAN, monster \in Range(MonsterCatalog) \cup {NoMonster} :
          initializeCombat(ok, monster)
    \/ \E ok \in BOOLEAN : loadPlayerSkills(ok)
    \/ mounted /\ handleAttack
    \/ \E skill \in Skills : mounted /\ handleSkillUse(skill)
    \/ mounted /\ handleRun
    \/ mounted /\ handleGoBack
    \/ \E menu \in {"main", "skills"} : mounted /\ setMenuState(menu)
    \/ \E i \in 1..Len(timers) : monsterAttack(i)
    \/ \E i \in 1..Len(timers) : navigate(i)

SpecCombatHandlers == InitCombat /\ [][NextCombatHandlers]_vars

\* The combat log on its own: addToCombatLog called with any messages.
LogMessages == {Message("fled", "", 0, 0), Message("attack", "slime", 18, 0)}

NextCombatLog == \E message \in LogMessages : logMessage(message)

SpecCombatLog == InitCombat /\ [][NextCombatLog]_vars

\* The same, with the event loop running every timer that is due.
SpecCombatTimers ==
    /\ SpecCombat
    /\ WF_vars(\E i \in 1..Len(timers) : monsterAttack(i))
    /\ WF_vars(\E i \in 1..Len(timers) : navigate(i))

\* ============================================================ claims
\* The quest the last completeQuest call was about, as the list held it then.
LastQuest == find(last.pre.quests, last.qid)

\* The last call was completeQuest on a listed quest that was not yet completed.
CompletingCall ==
    /\ last.op = "completeQuest"
    /\ LastQuest # NoQuest
    /\ ~LastQuest.isCompleted

\* C1: after completeQuest returns normally for a listed, not yet completed
\* quest, gold, experience and skillPoints are the old values plus the quest's
\* rewards (skillPoints: plus 0 when the reward carries none).
C1_RewardsAdded ==
    (CompletingCall /\ last.result = "returned") =>
        /\ user.gold = last.pre.user.gold + LastQuest.rewards.gold
        /\ user.experience = last.pre.user.experience + LastQuest.rewards.experience
        /\ user.skillPoints =
              last.pre.user.skillPoints
                + (IF LastQuest.rewards.hasSkillPoints
                   THEN LastQuest.rewards.skillPoints ELSE 0)

\* A quest without skillPoints completed by a character that holds some.
C1_Witness ==
    /\ CompletingCall /\ last.result = "returned"
    /\ ~LastQuest.rewards.hasSkillPoints
    /\ last.pre.user.skillPoints > 0
    /\ user.skillPoints = last.pre.user.skillPoints
    /\ user.gold > last.pre.user.gold

\* C2: when completeQuest has applied its reward, the level has risen iff
\* old.experience + reward.experience >= old.experienceToNext; then by exactly
\* 1, with experienceToNext = new level * 100 and availablePoints + 3;
\* otherwise level, experienceToNext and availablePoints are the old ones.
C2_LevelUpRule ==
    (CompletingCall /\ last.write = "ok") =>
        LET old == last.pre.user
        IN  IF old.experience + LastQuest.rewards.experience >= old.experienceToNext
            THEN /\ user.level = old.level + 1
                 /\ user.experienceToNext = user.level * 100
                 /\ user.availablePoints = old.availablePoints + 3
            ELSE /\ user.level = old.level
                 /\ user.experienceToNext = old.experienceToNext
                 /\ user.availablePoints = old.availablePoints

\* A reward that crosses two thresholds at once: one level is granted, and the
\* experience is still at or above the new threshold.
C2_Witness ==
    /\ CompletingCall /\ last.write = "ok"
    /\ user.level = last.pre.user.level + 1
    /\ user.experience >= user.experienceToNext
    /\ last.pre.user.experience < last.pre.user.experienceToNext

C4_OnlyActiveQuests ==
    (last.op = "completeQuest" /\ LastQuest # NoQuest /\ ~LastQuest.isActive
       /\ last.result = "returned") =>
        /\ quests = last.pre.quests
        /\ dbQuests = last.pre.dbQuests
        /\ user = last.pre.user
        /\ inventory = last.pre.inventory

\* C5: once completeQuest has returned or thrown, the character reward and the
\* granted items are both applied or both not applied, in memory and in what
\* is stored (the characters row, the saved inventory).
C5_AllOrNothing ==
    (CompletingCall /\ last.result \in {"returned", "thrown"}
       /\ LastQuest.rewards.hasItems /\ LastQuest.rewards.items # <<>>) =>
        LET charMem ==
                user.experience = last.pre.user.experience + LastQuest.rewards.experience
            charStored ==
                dbChar.experience = last.pre.dbChar.experience + LastQuest.rewards.experience
            itemsMem == inventory = last.pre.inventory \o LastQuest.rewards.items
            itemsStored ==
                savedInventory = last.pre.savedInventory \o LastQuest.rewards.items
        IN  \/ charMem /\ charStored /\ itemsMem /\ itemsStored
            \/ ~charMem /\ ~charStored /\ ~itemsMem /\ ~itemsStored

\* The same, of the in-memory state alone.
C5_AllOrNothingInMemory ==
    (CompletingCall /\ last.result \in {"returned", "thrown"}
       /\ LastQuest.rewards.hasItems /\ LastQuest.rewards.items # <<>>) =>
        ((user.experience = last.pre.user.experience + LastQuest.rewards.experience)
           <=> (inventory = last.pre.inventory \o LastQuest.rewards.items))

\* C6: an item granted by completeQuest that carries a quantity and whose id
\* is already in the inventory is merged into the existing entry: the number
\* of entries is unchanged and the quantities are summed.
C6_GrantedItemsStack ==
    (CompletingCall /\ last.result = "returned" /\ LastQuest.rewards.hasItems) =>
        \A k \in 1..Len(LastQuest.rewards.items) :
            LET item == LastQuest.rewards.items[k]
            IN  (QuantityTruthy(item) /\ findIndex(last.pre.inventory, item.id) # 0) =>
                    /\ Len(inventory) = Len(last.pre.inventory)
                    /\ UnitsOf(inventory, item.id)
                         = UnitsOf(last.pre.inventory, item.id) + item.quantity
                    /\ findIndex(inventory, item.id)
                         = findIndex(last.pre.inventory, item.id)
                    /\ inventory[findIndex(inventory, item.id)].quantity
                         = last.pre.inventory[findIndex(inventory, item.id)].quantity
                             + item.quantity

\* The character write of the last buyItem / sellItem call has been answered.
Settled == last.write \in {"ok", "failed"}

\* C7: buyItem with gold < item.value returns false, issues no store write and
\* changes neither gold nor inventory.
C7_BuyNeedsGold ==
    (last.op = "buyItem" /\ last.pre.user.gold < last.item.value) =>
        /\ last.result = "false"
        /\ last.calls = 0
        /\ tasks = <<>>
        /\ Snapshot = last.pre

\* The spec's case: gold below the price of the item asked for.
C7_Witness ==
    /\ last.op = "buyItem"
    /\ last.pre.user.gold < last.item.value
    /\ last.pre.user.gold > 0
    /\ last.result = "false"

\* C8: buyItem with gold >= item.value is atomic: once the character write has
\* been answered, either gold is down by item.value and the item is added, or
\* neither; and buyItem has reported true only when both were applied.
\* (Stated of the sessions in which local storage accepts the inventory.)
C8_BuyAtomic ==
    (last.op = "buyItem" /\ last.pre.user.gold >= last.item.value
       /\ ~storageFull /\ Settled) =>
        LET paid == user.gold = last.pre.user.gold - last.item.value
            added == inventory = addItemInventory(last.pre.inventory, last.item)
        IN  /\ \/ paid /\ added
               \/ user.gold = last.pre.user.gold /\ inventory = last.pre.inventory
            /\ last.result = "true" => paid /\ added

\* C9: a successful sellItem(id) removes exactly one unit of that id, also
\* when several entries carry the id, and leaves the other entries alone.
C9_SellRemovesOneUnit ==
    (last.op = "sellItem" /\ last.result = "true") =>
        /\ UnitsOf(inventory, last.item.id)
             = UnitsOf(last.pre.inventory, last.item.id) - 1
        /\ Others(inventory, last.item.id) = Others(last.pre.inventory, last.item.id)

\* C10: sellItem(id) returns false and changes nothing when no entry has the
\* id; otherwise it returns true and gold rises by floor(item.value / 2).
\* (Stated of the sessions in which local storage accepts the inventory.)
C10_SellCreditsHalf ==
    /\ (last.op = "sellItem" /\ findIndex(last.pre.inventory, last.item.id) = 0) =>
          /\ last.result = "false"
          /\ last.calls = 0
          /\ tasks = <<>>
          /\ Snapshot = last.pre
    /\ (last.op = "sellItem" /\ findIndex(last.pre.inventory, last.item.id) # 0
          /\ ~storageFull /\ Settled) =>
          /\ last.result = "true"
          /\ 2 * (user.gold - last.pre.user.gold) <= last.item.value
          /\ 2 * (user.gold - last.pre.user.gold) > last.item.value - 2

\* What holds of sellItem: the not-found case, and the credit when the
\* character write succeeds.
C10_SellCreditsHalfWhenStored ==
    /\ (last.op = "sellItem" /\ findIndex(last.pre.inventory, last.item.id) = 0) =>
          /\ last.result = "false"
          /\ last.calls = 0
          /\ tasks = <<>>
          /\ Snapshot = last.pre
    /\ (last.op = "sellItem" /\ findIndex(last.pre.inventory, last.item.id) # 0
          /\ ~storageFull /\ last.write = "ok") =>
          /\ last.result = "true"
          /\ 2 * (user.gold - last.pre.user.gold) <= last.item.value
          /\ 2 * (user.gold - last.pre.user.gold) > last.item.value - 2

\* ------------------------------------------------ addItem / removeItem
\* The entry of the inventory at the call that addItem / removeItem matched.
LastEntry == findItem(last.pre.inventory, last.item.id)

\* C11: addItem of an item that carries a quantity and whose id is already
\* in the inventory (in an entry that carries a quantity) leaves the number of
\* entries unchanged, sets the matching entry's quantity to the sum of the old
\* and the incoming quantity, and leaves all other entries unchanged.
C11_StackingSums ==
    (last.op = "addItem" /\ last.item.hasQuantity
       /\ LastEntry # NoItem /\ LastEntry.hasQuantity) =>
        LET k == findIndex(last.pre.inventory, last.item.id)
        IN  /\ Len(inventory) = Len(last.pre.inventory)
            /\ inventory[k].quantity = LastEntry.quantity + last.item.quantity
            /\ \A j \in 1..Len(inventory) :
                   j # k => inventory[j] = last.pre.inventory[j]

\* The same, of the items whose quantity is at least 1.
C11_StackingSumsWhenPositive ==
    (last.op = "addItem" /\ last.item.hasQuantity /\ last.item.quantity >= 1
       /\ LastEntry # NoItem /\ LastEntry.hasQuantity) =>
        LET k == findIndex(last.pre.inventory, last.item.id)
        IN  /\ Len(inventory) = Len(last.pre.inventory)
            /\ inventory[k].quantity = LastEntry.quantity + last.item.quantity
            /\ \A j \in 1..Len(inventory) :
                   j # k => inventory[j] = last.pre.inventory[j]

\* C12: addItem of an item without a quantity field appends one entry: the
\* inventory is the old one followed by the item, also when an entry with the
\* same id is already there.
C12_LooseItemsAppend ==
    (last.op = "addItem" /\ ~last.item.hasQuantity) =>
        /\ Len(inventory) = Len(last.pre.inventory) + 1
        /\ inventory = Append(last.pre.inventory, last.item)

\* An item without a quantity added to an inventory that holds its id.
C12_Witness ==
    /\ last.op = "addItem" /\ ~last.item.hasQuantity
    /\ LastEntry # NoItem
    /\ Len(inventory) = Len(last.pre.inventory) + 1
    /\ inventory[Len(inventory)] = last.item

\* removeItem(id, q): the entry survives (it has another id, or more than q units)
Survives(entry, id, q) == entry.id # id \/ Units(entry) > q

PlayerActed ==
    lastAct.op \in {"handleAttack", "handleSkillUse"} /\ lastAct.accepted

\* The counter-attack timers that wait.
PendingCounters == {i \in 1..Len(timers) : timers[i].kind = "monsterAttack"}

\* A counter-attack scheduled by press a waits.
Pending(a) == \E i \in PendingCounters : timers[i].by = a

\* C14: a player action (Attack or Skill) that brings monsterHP to <= 0
\* schedules no counter-attack, and no counter-attack is ever run for it.
C14_NoCounterAfterKill ==
    /\ (PlayerActed /\ lastAct.pre.monsterHP > 0 /\ monsterHP <= 0) =>
          /\ timers = lastAct.pre.timers
          /\ playerHP = lastAct.pre.playerHP
    /\ \A a \in killers : ~Pending(a) /\ struck[a] = 0

\* A skill has brought the monster from above 0 to 0 while an earlier
\* counter-attack waits.
C14_Witness ==
    /\ lastAct.op = "handleSkillUse" /\ lastAct.accepted
    /\ lastAct.pre.monsterHP > 0 /\ monsterHP = 0
    /\ lastAct.by \in killers
    /\ timers # <<>>

\* The encounter had ended when the last step began: victory, defeat or flee.
EndedBefore ==
    \/ lastAct.pre.monsterHP <= 0
    \/ lastAct.pre.playerHP <= 0
    \/ lastAct.pre.fled

\* C15: a counter-attack that comes due after the encounter has ended
\* (monsterHP <= 0, playerHP <= 0 or flee) leaves playerHP and the log as
\* they are.
C15_NoCounterAfterEnd ==
    (lastAct.op = "monsterAttack" /\ EndedBefore) =>
        /\ playerHP = lastAct.pre.playerHP
        /\ combatLog = lastAct.pre.combatLog

\* C16: while a counter-attack is pending, a further Attack, Skill or Run is
\* rejected and changes no combat state; so at most one counter-attack is
\* ever pending.
C16_OneActionInFlight ==
    /\ (lastAct.op \in {"handleAttack", "handleSkillUse", "handleRun"}
          /\ \E i \in 1..Len(lastAct.pre.timers) :
                 lastAct.pre.timers[i].kind = "monsterAttack") =>
          CombatSnapshot = lastAct.pre
    /\ Cardinality(PendingCounters) <= 1

\* C19: Run appends the flee line and grants nothing, and once Run was
\* pressed no Attack, Skill or counter-attack changes monsterHP, playerHP or
\* playerMP.
C19_RunEndsEncounter ==
    /\ (lastAct.op = "handleRun") =>
          /\ combatLog[Len(combatLog)] = Message("fled", "", 0, 0)
          /\ fled
          /\ monsterHP = lastAct.pre.monsterHP
          /\ playerHP = lastAct.pre.playerHP
          /\ playerMP = lastAct.pre.playerMP
    /\ (lastAct.op \in {"handleAttack", "handleSkillUse", "monsterAttack"}
          /\ lastAct.pre.fled) =>
          /\ monsterHP = lastAct.pre.monsterHP
          /\ playerHP = lastAct.pre.playerHP
          /\ playerMP = lastAct.pre.playerMP

\* C20: no step of the combat page (initialisation, Attack, Skill,
\* counter-attack, Run, leaving) changes the character record, in memory or
\* stored, the inventory, in memory or saved, or the monster templates.
C20_CombatFrame ==
    [][/\ user' = user /\ dbChar' = dbChar
       /\ inventory' = inventory /\ savedInventory' = savedInventory
       /\ dbMonsters' = dbMonsters
       /\ (currentMonster # NoMonster => currentMonster' = currentMonster)]_vars

\* A victory whose log announces the rewards, and a flight after a
\* counter-attack: gold and experience are what they were, and the template
\* holds its hp.
C20_Witness ==
    /\ \/ killers # {} /\ monsterHP = 0
       \/ fled /\ playerHP < user.currentHP
    /\ currentMonster # NoMonster
    /\ currentMonster.hp > monsterHP
    /\ currentMonster \in Range(dbMonsters)
    /\ user.gold = DefaultCharacter.gold /\ user.experience = 0
    /\ lastAct.op \in {"handleAttack", "handleSkillUse", "monsterAttack"}

\* The encounter is over: victory, defeat, flee, or the page was left.
EncounterEnded == isBattleOver \/ fled \/ ~mounted

\* C17: a player action (Attack or accepted Skill) that leaves monsterHP > 0
\* schedules a counter-attack; the counter-attack of an action is never run
\* twice; and a scheduled counter-attack is eventually run, unless the
\* encounter ends in the meantime.
C17_CounterAttackFollows ==
    /\ [][(acts' = acts + 1 /\ lastAct'.accepted /\ monsterHP' > 0
            /\ lastAct'.op \in {"handleAttack", "handleSkillUse"}) =>
             (\E i \in 1..Len(timers') :
                 timers'[i].kind = "monsterAttack" /\ timers'[i].by = acts')]_vars
    /\ [](\A a \in 1..MaxActs : struck[a] <= 1)
    /\ \A a \in 1..MaxActs : Pending(a) ~> (struck[a] = 1 \/ EncounterEnded)

\* The counter-attack of an action has run while the encounter goes on.
C17_Witness ==
    /\ lastAct.op = "monsterAttack"
    /\ struck[lastAct.by] = 1
    /\ playerHP < lastAct.pre.playerHP
    /\ ~EncounterEnded

\* The skill handed to the last handleSkillUse is one the user has unlocked.
SkillUnlocked == lastAct.skill \in Range(dbUnlocked)

\* C18: handleSkillUse accepts a skill only if the user has unlocked it and
\* playerMP >= skill.mana_cost; otherwise it rejects the call itself:
\* monsterHP, playerMP, playerHP, the log and the menu are unchanged and no
\* counter-attack is scheduled.
C18_SkillRevalidated ==
    (lastAct.op = "handleSkillUse"
       /\ ~(SkillUnlocked /\ lastAct.pre.playerMP >= lastAct.skill.mana_cost)) =>
        /\ ~lastAct.accepted
        /\ CombatSnapshot = lastAct.pre

\* The part that holds: a skill that costs more than playerMP is rejected.
C18_SkillNeedsMana ==
    (lastAct.op = "handleSkillUse"
       /\ lastAct.pre.playerMP < lastAct.skill.mana_cost) =>
        /\ ~lastAct.accepted
        /\ CombatSnapshot = lastAct.pre

\* ------------------------------------------------- combat: the numbers
\* The stats and the monster values the damage formulas are tried with.
StatRange == 0..MaxStat
DefenseRange == 0..MaxDefense

\* C21: the damage of a basic Attack is max(1, (10 + 2*strength) - defense):
\* at least 1 for every strength and defense; an accepted Attack lowers
\* monsterHP by that amount, stopping at 0, and logs that amount.
C21_AttackDamage ==
    /\ (lastAct.op = "none") =>
          \A strength \in StatRange, defense \in DefenseRange :
              LET raw == (10 + 2 * strength) - defense
                  damage == attackDamage([strength |-> strength], [defense |-> defense])
              IN  /\ damage >= 1
                  /\ damage = IF raw >= 1 THEN raw ELSE 1
    /\ (lastAct.op = "handleAttack" /\ lastAct.accepted) =>
          LET raw == (10 + 2 * user.strength) - currentMonster.defense
              damage == IF raw >= 1 THEN raw ELSE 1
              lowered == lastAct.pre.monsterHP - damage
          IN  /\ monsterHP = IF lowered >= 0 THEN lowered ELSE 0
              /\ \E k \in 1..Len(combatLog) :
                     combatLog[k] = Message("attack", currentMonster.name, damage, 0)

\* An Attack whose raw damage is below 1 (10 + 2*strength <= defense) has
\* lowered monsterHP by 1.
C21_Witness ==
    /\ lastAct.op = "handleAttack" /\ lastAct.accepted
    /\ (10 + 2 * user.strength) - currentMonster.defense <= 0
    /\ monsterHP = lastAct.pre.monsterHP - 1

\* ------------------------------------------------- quests: the store
\* C22: in every state in which no completeQuest call is in flight (each has
\* fully resolved), the character's experience is below experienceToNext.
C22_ExperienceBelowThreshold ==
    Idle => user.experience < user.experienceToNext

\* The quest was completed at the last call and is still there.
StayedCompleted(was, now) == (was # NoQuest /\ was.isCompleted) => now.isCompleted

\* C23: completion is one-way. The completing step stores isCompleted with
\* progress = maxProgress and completedAt set; a quest that was completed when
\* the last operation (addQuest, completeQuest, deleteQuest,
\* questAPI.updateQuest) was called is still completed, in the store and in
\* the list, for as long as it exists.
C23_CompletionOneWay ==
    /\ \A id \in DOMAIN dbQuests \cap DOMAIN last.pre.dbQuests :
          /\ StayedCompleted(last.pre.dbQuests[id], dbQuests[id])
          /\ (last.op = "completeQuest" /\ dbQuests[id].isCompleted
                /\ ~last.pre.dbQuests[id].isCompleted) =>
                /\ dbQuests[id].progress = dbQuests[id].maxProgress
                /\ dbQuests[id].completedAt
    /\ \A k \in 1..Len(quests) :
          StayedCompleted(find(last.pre.quests, quests[k].id), quests[k])

\* The last call was thrown out of by a failing store call: questAPI's call,
\* or the character write of updateUser inside completeQuest.
StoreFailed ==
    /\ last.op \in {"addQuest", "deleteQuest", "completeQuest"}
    /\ last.result = "thrown"
    /\ last.write \in {"none", "failed"}

\* C24: when a store call fails inside addQuest, deleteQuest or completeQuest
\* (its own call or the character write of updateUser), the call throws and
\* the quest list, the character and the inventory in memory are exactly
\* what they were before the call.
C24_StoreFailureLeavesMemory ==
    StoreFailed =>
        /\ quests = last.pre.quests
        /\ user = last.pre.user
        /\ inventory = last.pre.inventory

\* The same, for the failures of the handler's own store call only.
C24_FirstCallFailureLeavesMemory ==
    (StoreFailed /\ last.write = "none") =>
        /\ quests = last.pre.quests
        /\ user = last.pre.user
        /\ inventory = last.pre.inventory

\* ------------------------------------------- combat: the encounter's start
\* initializeCombat has answered and no monster is loaded.
NoMonsterLoaded == initPc = "done" /\ currentMonster = NoMonster

\* C25: when the start of the encounter has failed (the store answered with
\* an error or the catalog is empty) there is no monster; Attack, Skill and
\* the counter-attack leave playerHP, playerMP and monsterHP alone (the
\* handlers return at once and no counter-attack is ever scheduled); the
\* page still offers the way back and no combat action; the stored
\* character is the one the page was opened with.
C25_FailedStartIsInert ==
    NoMonsterLoaded =>
        /\ playerHP = InitialPlayerHP /\ playerMP = InitialPlayerMP /\ monsterHP = 0
        /\ \A i \in 1..Len(timers) : timers[i].kind # "monsterAttack"
        /\ lastAct.op \in {"handleAttack", "handleSkillUse"} => ~lastAct.accepted
        /\ dbChar = user /\ user \in CombatCharacters
        /\ mounted => (Shown /\ ~ActionMenu /\ ENABLED handleGoBack)

\* The catalog is empty, the start has failed, and a Skill was tried on the
\* page that is still open.
C25_Witness ==
    /\ NoMonsterLoaded /\ dbMonsters = <<>> /\ mounted
    /\ combatLog[1] = Message("failed", "", 0, 0)
    /\ lastAct.op = "handleSkillUse"
    /\ lastAct.skill.mana_cost <= playerMP

\* ------------------------------------------------- combat: skills
\* max(1, floor(skillDamage - defense / 2)) with skillDamage = damage +
\* 2 * intelligence for a Wizard skill, damage + 1.5 * strength for a Fighter
\* skill, damage for any other class.  twice is 2 * (skillDamage - defense / 2).
ClaimedCastDamage(intelligence, strength, skill, defense) ==
    LET twice == 2 * skill.damage
                   + (CASE skill.required_class = "Wizard" -> 4 * intelligence
                        [] skill.required_class = "Fighter" -> 3 * strength
                        [] OTHER -> 0)
                   - defense
        floor == CHOOSE f \in -100..100 : 2 * f <= twice /\ twice < 2 * f + 2
    IN  IF floor >= 1 THEN floor ELSE 1

\* C26: an accepted Skill deals ClaimedCastDamage (at least 1), takes
\* mana_cost from playerMP, lowers monsterHP by the damage, stopping at 0,
\* logs the cast and puts the menu back to main.
C26_SkillDamage ==
    /\ (lastAct.op = "none") =>
          \A skill \in Skills, intelligence \in StatRange, strength \in StatRange,
             defense \in DefenseRange :
              /\ castDamage([intelligence |-> intelligence, strength |-> strength],
                            skill, [defense |-> defense])
                    = ClaimedCastDamage(intelligence, strength, skill, defense)
              /\ ClaimedCastDamage(intelligence, strength, skill, defense) >= 1
    /\ (lastAct.op = "handleSkillUse" /\ lastAct.accepted) =>
          LET damage == ClaimedCastDamage(user.intelligence, user.strength,
                                          lastAct.skill, currentMonster.defense)
              lowered == lastAct.pre.monsterHP - damage
          IN  /\ playerMP = lastAct.pre.playerMP - lastAct.skill.mana_cost
              /\ monsterHP = IF lowered >= 0 THEN lowered ELSE 0
              /\ menuState = "main"
              /\ \E k \in 1..Len(combatLog) :
                     combatLog[k] = Message("cast", lastAct.skill.name, damage, 0)

\* A Fighter skill whose damage ends in one half before the floor has hurt a
\* monster that is still standing.
C26_Witness ==
    /\ lastAct.op = "handleSkillUse" /\ lastAct.accepted
    /\ lastAct.skill.required_class = "Fighter"
    /\ (3 * user.strength - currentMonster.defense) % 2 = 1
    /\ lastAct.pre.menuState = "skills"
    /\ monsterHP > 0 /\ monsterHP < lastAct.pre.monsterHP - 1

\* ------------------------------------------- combat: the counter-attack
\* max(1, monster.attack - (5 + dexterity))
ClaimedMonsterDamage(attack, dexterity) ==
    LET raw == attack - (5 + dexterity)
    IN  IF raw >= 1 THEN raw ELSE 1

\* A counter-attack has just run on the open page.
CounterAttacked ==
    lastAct.op = "monsterAttack" /\ lastAct.accepted /\ lastAct.pre.mounted

\* What playerHP is after a counter-attack on a player with hp points.
Struck(hp) ==
    LET lowered == hp - ClaimedMonsterDamage(currentMonster.attack, user.dexterity)
    IN  IF lowered >= 0 THEN lowered ELSE 0

\* The playerHP the counter-attack that has just run was scheduled with.
CapturedPlayerHP ==
    LET i == CHOOSE k \in 1..Len(lastAct.pre.timers) :
                 /\ lastAct.pre.timers[k].kind = "monsterAttack"
                 /\ lastAct.pre.timers[k].by = lastAct.by
    IN  lastAct.pre.timers[i].playerHP

\* The damage formula, for every attack and dexterity; the DEFEAT state and
\* its log line.
CounterAttackNumbers ==
    /\ (lastAct.op = "none") =>
          \A attack \in DefenseRange, dexterity \in StatRange :
              /\ monsterDamage([dexterity |-> dexterity], [attack |-> attack])
                    = ClaimedMonsterDamage(attack, dexterity)
              /\ ClaimedMonsterDamage(attack, dexterity) >= 1
    /\ CounterAttacked =>
          /\ isPlayerDefeated <=> playerHP <= 0
          /\ (combatLog[Len(combatLog)] = Message("playerDefeated", "", 0, 0))
                <=> playerHP <= 0

\* C27: a counter-attack deals max(1, monster.attack - (5 + dexterity)), at
\* least 1 for every attack and dexterity; it lowers playerHP by that
\* amount, stopping at 0; the encounter is in DEFEAT exactly when
\* playerHP <= 0.
C27_CounterAttackDamage ==
    /\ CounterAttackNumbers
    /\ CounterAttacked => playerHP = Struck(lastAct.pre.playerHP)

\* The same for the counter-attacks that were scheduled with the playerHP
\* they find when they run.
C27_CounterAttackDamageUnraced ==
    /\ CounterAttackNumbers
    /\ CounterAttacked =>
          /\ playerHP = Struck(CapturedPlayerHP)
          /\ CapturedPlayerHP = lastAct.pre.playerHP =>
                playerHP = Struck(lastAct.pre.playerHP)

\* C28: after a successful start of the encounter the monster is a row of
\* the catalog, monsterHP is that row's hp, playerHP and playerMP are the
\* character's current HP and MP, and the log holds the announcement.
C28_EncounterStart ==
    (lastAct.op = "initializeCombat" /\ lastAct.accepted) =>
        /\ currentMonster \in Range(dbMonsters)
        /\ monsterHP = currentMonster.hp
        /\ playerHP = user.currentHP
        /\ playerMP = user.currentMP
        /\ combatLog = <<Message("appears", currentMonster.name, 0, 0)>>

\* The last row of the catalog was chosen, for a character below its full
\* vitals.
C28_Witness ==
    /\ lastAct.op = "initializeCombat" /\ lastAct.accepted
    /\ currentMonster = dbMonsters[Len(dbMonsters)]
    /\ currentMonster # dbMonsters[1]
    /\ user.currentHP < user.maxHP /\ user.currentMP < user.maxMP
    /\ playerHP = user.currentHP

\* Every row of the catalog can be the one chosen.
C28_WitnessFirst ==
    /\ lastAct.op = "initializeCombat" /\ lastAct.accepted
    /\ currentMonster = dbMonsters[1]

C28_WitnessSecond ==
    /\ lastAct.op = "initializeCombat" /\ lastAct.accepted
    /\ currentMonster = dbMonsters[2]

\* ------------------------------------------------- combat: the log
\* C29: the combat log is a sliding window over the messages appended: it
\* is at most 10 long and holds exactly the last min(10, n) of the n
\* messages appended so far, in the order in which they were appended.
C29_LogWindow ==
    LET n == Len(logged)
        k == IF n < 10 THEN n ELSE 10
    IN  /\ Len(combatLog) <= 10
        /\ Len(combatLog) = k
        /\ \A i \in 1..k : combatLog[i] = logged[n - k + i]

\* More than 10 messages were appended and the oldest ones are gone: the
\* first line of the log is the 11th message from the end, which differs
\* from the first message appended.
C29_Witness ==
    /\ Len(logged) > 10
    /\ Len(combatLog) = 10
    /\ combatLog[1] # logged[1]
    /\ combatLog[10] = logged[Len(logged)]
    /\ combatLog[10] # combatLog[9]

\* ------------------------------------------- quests: overlapping calls
\* The skill points a quest carries.
RewardSkillPoints(quest) ==
    IF quest.rewards.hasSkillPoints THEN quest.rewards.skillPoints ELSE 0

\* The gold, experience and skill points of the quests 1..n whose rewards
\* were written at least once, each quest counted once.
RECURSIVE GrantedOnce(_)
GrantedOnce(n) ==
    IF n = 0 THEN [gold |-> 0, experience |-> 0, skillPoints |-> 0]
    ELSE LET rest == GrantedOnce(n - 1)
         IN  IF granted[n] >= 1
             THEN [gold |-> rest.gold + dbQuests[n].rewards.gold,
                   experience |-> rest.experience + dbQuests[n].rewards.experience,
                   skillPoints |-> rest.skillPoints + RewardSkillPoints(dbQuests[n])]
             ELSE rest

\* Two (or more) overlapping completeQuest calls for the quest of the last
\* call have all written its rewards, no other quest was rewarded, and
\* every call has settled.
OverlappedAndSettled ==
    /\ CompletingCall
    /\ tasks = <<>>
    /\ granted[last.qid] >= 2
    /\ \A qid \in QuestIds \ {last.qid} : granted[qid] = 0

\* C30: a quest's rewards are applied at most once even when completeQuest
\* calls overlap.  The character, in memory and stored, never holds more
\* than the starting values plus one reward per rewarded quest; and when
\* overlapping calls for one quest have all settled, gold, experience and
\* skill points are the values before the calls plus one reward, and the
\* inventory is the one before the calls plus the reward items once.
C30_RewardsOnceWhenOverlapping ==
    /\ \A character \in {user, dbChar} :
          /\ character.gold <= DefaultCharacter.gold + GrantedOnce(MaxQuests).gold
          /\ character.experience
                <= DefaultCharacter.experience + GrantedOnce(MaxQuests).experience
          /\ character.skillPoints
                <= DefaultCharacter.skillPoints + GrantedOnce(MaxQuests).skillPoints
    /\ OverlappedAndSettled =>
          /\ \A character \in {user, dbChar} :
                /\ character.gold = last.pre.user.gold + LastQuest.rewards.gold
                /\ character.experience
                      = last.pre.user.experience + LastQuest.rewards.experience
                /\ character.skillPoints
                      = last.pre.user.skillPoints + RewardSkillPoints(LastQuest)
          /\ inventory = IF LastQuest.rewards.hasItems
                         THEN last.pre.inventory \o LastQuest.rewards.items
                         ELSE last.pre.inventory

\* Two overlapping calls for a quest that carries gold, skill points and an
\* item have both written the rewards.
C30_Witness ==
    /\ OverlappedAndSettled
    /\ granted[last.qid] = 2
    /\ LastQuest.rewards.gold > 0
    /\ RewardSkillPoints(LastQuest) > 0
    /\ LastQuest.rewards.hasItems
    /\ user.gold = last.pre.user.gold + LastQuest.rewards.gold
    /\ Len(inventory) = Len(last.pre.inventory) + Len(LastQuest.rewards.items)

\* ------------------------------------- combat: counter-attacks that race
\* The counter-attacks that have struck for the presses 1..n.
RECURSIVE StruckUpTo(_)
StruckUpTo(n) == IF n = 0 THEN 0 ELSE StruckUpTo(n - 1) + struck[n]

\* C31: every counter-attack lowers playerHP from its current value: after
\* k counter-attacks of damage d, playerHP is max(0, startHP - k * d), also
\* when the player has acted again while a counter-attack was pending.
C31_CounterAttacksAddUp ==
    currentMonster # NoMonster =>
        LET d == ClaimedMonsterDamage(currentMonster.attack, user.dexterity)
            lowered == user.currentHP - StruckUpTo(MaxActs) * d
        IN  playerHP = IF lowered >= 0 THEN lowered ELSE 0

\* ------------------------------------------- combat: victory and defeat
\* C32: victory and defeat exclude each other: no state of an encounter has
\* monsterHP <= 0 and playerHP <= 0 at once; and a step taken when either
\* held has left monsterHP, playerHP and playerMP as they were.
C32_VictoryOrDefeat ==
    currentMonster # NoMonster =>
        /\ ~(monsterHP <= 0 /\ playerHP <= 0)
        /\ (/\ lastAct.pre.currentMonster # NoMonster
            /\ (lastAct.pre.monsterHP <= 0 \/ lastAct.pre.playerHP <= 0)) =>
              /\ monsterHP = lastAct.pre.monsterHP
              /\ playerHP = lastAct.pre.playerHP
              /\ playerMP = lastAct.pre.playerMP

\* ------------------------------------------- the shop: overlapping calls
\* C33: gold updates are never lost: when every call has settled, the gold
\* of the character, in memory and stored, is the starting gold plus every
\* reward and sell credit written minus every price written, also when
\* buyItem or sellItem ran while another call awaited the store.
C33_GoldNeverLost ==
    Idle => (user.gold = ledger /\ dbChar.gold = ledger)

\* ------------------------------------- the inventory: overlapping calls
\* The last call was an inventory operation that went through.
InventoryChanged ==
    \/ last.op \in {"addItem", "removeItem"}
    \/ last.op = "buyItem" /\ last.pre.user.gold >= last.item.value
    \/ last.op = "sellItem" /\ findIndex(last.pre.inventory, last.item.id) # 0

\* The inventory that operation made of the one it found.
InventoryAfterLast ==
    CASE last.op \in {"addItem", "buyItem"} ->
            addItemInventory(last.pre.inventory, last.item)
      [] last.op = "removeItem" ->
            removeItemInventory(last.pre.inventory, last.item.id, last.item.quantity)
      [] last.op = "sellItem" ->
            removeItemInventory(last.pre.inventory, last.item.id, 1)
      [] OTHER -> last.pre.inventory

\* The reward items a completeQuest may have added since: none, or those
\* of a listed quest.
RewardItemsSince ==
    {<<>>} \cup {quests[k].rewards.items : k \in 1..Len(quests)}

\* C34: inventory updates are never lost: an item added or removed while
\* completeQuest awaited the store is still in (or out of) the inventory
\* when every call has settled: per id, the inventory holds the units the
\* operation left, plus the reward items if completeQuest added them since.
\* And the inventory saved to local storage is the one in memory.
C34_InventoryNeverLost ==
    /\ savedInventory = inventory
    /\ (Idle /\ InventoryChanged) =>
          \E items \in RewardItemsSince :
              \A id \in ItemIds :
                  UnitsOf(inventory, id)
                    = UnitsOf(InventoryAfterLast, id) + UnitsOf(items, id)

\* --------------------------------------- completed quests and their rewards
\* The quest is marked completed, in the store or in the list.
MarkedCompleted(qid) ==
    \/ qid \in DOMAIN dbQuests /\ dbQuests[qid].isCompleted
    \/ find(quests, qid).isCompleted

\* C35: a quest is never left completed without its rewards: whenever
\* completeQuest has finished (returned or thrown) and its quest is marked
\* completed in the store or in the list, the character write that carries
\* the quest's gold and experience has succeeded.
C35_CompletedImpliesRewarded ==
    (last.op = "completeQuest" /\ last.result \in {"returned", "thrown", "noop"}) =>
        (MarkedCompleted(last.qid) => granted[last.qid] >= 1)

\* ------------------------------------------------ combat: the three gauges
\* C36: in every state of an encounter monsterHP is between 0 and the
\* monster's hp, playerHP between 0 and the HP the encounter started with,
\* playerMP between 0 and the MP it started with, and no step of the
\* encounter raises any of the three.
C36_GaugesBoundedAndFalling ==
    currentMonster # NoMonster =>
        /\ 0 <= monsterHP /\ monsterHP <= currentMonster.hp
        /\ 0 <= playerHP /\ playerHP <= user.currentHP
        /\ 0 <= playerMP /\ playerMP <= user.currentMP
        /\ lastAct.pre.currentMonster # NoMonster =>
              /\ monsterHP <= lastAct.pre.monsterHP
              /\ playerHP <= lastAct.pre.playerHP
              /\ playerMP <= lastAct.pre.playerMP

\* A counter-attack has just lowered playerHP in an encounter in which a
\* skill has lowered monsterHP and playerMP.
C36_Witness ==
    /\ currentMonster # NoMonster
    /\ lastAct.op = "monsterAttack"
    /\ lastAct.pre.currentMonster # NoMonster
    /\ playerHP < lastAct.pre.playerHP
    /\ 0 < monsterHP /\ monsterHP < currentMonster.hp
    /\ 0 < playerMP /\ playerMP < user.currentMP

\* ------------------------------------------- addItem, then removeItem
\* C37: addItem and removeItem are inverse on quantities: after addItem of
\* an item with quantity q, removeItem(item.id, q) leaves, for every id, the
\* number of units the inventory held before the addItem, whatever entries
\* it held (one of the same id without a quantity field included).
C37_AddThenRemove ==
    (last.op = "addItem" /\ QuantityTruthy(last.item)) =>
        \A id \in ItemIds :
            UnitsOf(removeItemInventory(inventory, last.item.id, last.item.quantity), id)
              = UnitsOf(last.pre.inventory, id)
====
